---- MODULE Spec2Model ----
(***************************************************************************)
(* FCSP state monitor (examples/fcsp_state_monitor.py).                    *)
(*                                                                         *)
(* One main thread runs main() -> FCSPStateMonitor.__init__ -> monitor();  *)
(* the signal handler runs on the same thread between two steps of it.     *)
(* The device (the FCSP client) is the environment: every fetch draws its  *)
(* outcome from the small sets below.                                      *)
(*                                                                         *)
(* Python values: a state code is a string, None is the value None below;  *)
(* an inverter list is List(<<...>>), a missing list is NoList.            *)
(* Timestamps of the report (datetime.now) are left out of the lines.      *)
(***************************************************************************)
EXTENDS Integers, Sequences, FiniteSets, TLC

VARIABLES
    pc,                        \* position of the main thread
    poll_interval,             \* self.poll_interval
    sleeping_for,              \* argument of the time.sleep call in progress,
                               \* 0 when the thread is not in time.sleep
    previous_state,            \* self.previous_state
    previous_inverter_states,  \* self.previous_inverter_states
    running,                   \* self.running
    current_state,             \* first value returned by get_current_state
    current_inverters,         \* second value returned by get_current_state
    conn,                      \* TRUE inside the "with FCSP() as fcsp" block
    handlers,                  \* TRUE once signal.signal registered the handler
    exit_code,                 \* process exit status, NoExit while it runs
    stdout,                    \* lines printed since the top of the current
                               \* loop iteration (startup lines before the
                               \* first one); older lines are not kept
    signals,                   \* signals delivered so far
    fetches,                   \* calls of get_current_state so far (saturating)
    sleeps,                    \* time.sleep(poll_interval) calls so far (saturating)
    failed_streak,             \* consecutive loop iterations that ended without
                               \* a comparison (saturating)
    reports,                   \* change messages printed so far (saturating)
    shown_state,               \* state code most recently shown to the user
    shown_inverters            \* inverter list most recently shown to the user

vars == <<pc, poll_interval, sleeping_for, previous_state, previous_inverter_states, running,
          current_state, current_inverters, conn, handlers, exit_code, stdout,
          signals, fetches, sleeps, failed_streak, reports, shown_state,
          shown_inverters>>

\* ---------------------------------------------------------------- bounds
MaxSignals == 2
MaxCount == 3
MaxStreak == 3

\* ---------------------------------------------------------------- values
None == "None"
\* No exit status yet: the process runs (statuses are 0..255).
NoExit == -1
NoList == [some |-> FALSE, items |-> <<>>]
List(s) == [some |-> TRUE, items |-> s]

\* --interval values tried (argparse type=int accepts any integer).
PollIntervals == {-1, 0, 1, 5, 6, 30}

\* Mutant: the handler sleeps the poll interval again.
RECOVERY_DELAY_PollInterval == poll_interval

\* time.sleep(5) of the "unexpected error" handler.
RECOVERY_DELAY == 5

\* State codes the device answers with: two catalogued, one not.
StateCodes == {"CS00", "CS02", "CS99"}

\* Inverter lists the device answers with: they differ in length, in an
\* element and in order.
InverterLists == {List(<<>>), List(<<"on">>), List(<<"on", "off">>),
                  List(<<"off", "on">>)}

DEVICE_STATES ==
    [c \in {"CS00", "CS01", "CS02", "CS03"} |->
        CASE c = "CS00" -> [name |-> "Available",
                            description |-> "No vehicle connected - Ready for charging",
                            icon |-> "green"]
          [] c = "CS01" -> [name |-> "Connected (Not Charging)",
                            description |-> "Vehicle connected but charging paused/stopped",
                            icon |-> "yellow"]
          [] c = "CS02" -> [name |-> "Charging",
                            description |-> "Vehicle connected and actively charging",
                            icon |-> "battery"]
          [] c = "CS03" -> [name |-> "Error/Fault",
                            description |-> "Possible error or fault condition",
                            icon |-> "red"]]

Inc(n, max) == IF n < max THEN n + 1 ELSE max

\* Mutant: the fallback name leaves the code out.
Describe_BareUnknown(code) ==
    IF code \in DOMAIN DEVICE_STATES
    THEN DEVICE_STATES[code]
    ELSE [name |-> "Unknown", icon |-> "question"]

\* DEVICE_STATES.get(code, {'name': f'Unknown ({code})', 'icon': '?'})
Describe(code) ==
    IF code \in DOMAIN DEVICE_STATES
    THEN DEVICE_STATES[code]
    ELSE [name |-> "Unknown (" \o code \o ")", icon |-> "question"]

\* The line "Device: <icon> <old> (<name>) -> <icon> <new> (<name>)".
DeviceLine(old_state, new_state) ==
    [line |-> "device",
     old_icon |-> Describe(old_state).icon, old_code |-> old_state,
     old_name |-> Describe(old_state).name,
     new_icon |-> Describe(new_state).icon, new_code |-> new_state,
     new_name |-> Describe(new_state).name]

\* The line "Inverters: <old> -> <new>".
InverterLine(old_inverters, new_inverters) ==
    [line |-> "inverters", old |-> old_inverters, new |-> new_inverters]

\* Mutant: the lists are compared by length only.
InvertersChanged_ByLength(old_inverters, new_inverters) ==
    Len(old_inverters.items) # Len(new_inverters.items)

\* if old_inverters != new_inverters: lines.append(...)
InvertersChanged(old_inverters, new_inverters) ==
    old_inverters # new_inverters

\* The change message: the header and device line always, the inverter line
\* only when the lists differ.
format_state_change(old_state, new_state, old_inverters, new_inverters) ==
    [kind |-> "change",
     lines |-> <<DeviceLine(old_state, new_state)>> \o
               (IF InvertersChanged(old_inverters, new_inverters)
                THEN <<InverterLine(old_inverters, new_inverters)>>
                ELSE <<>>)]

Line(k) == [kind |-> k]

\* The line "Error getting state: <e>" with the place that raised.
ErrorLine(cause) == [kind |-> "error", cause |-> cause]

IsChange(l) == l.kind = "change"
ChangeReports(out) == SelectSeq(out, IsChange)
HasLine(out, k) == \E i \in 1..Len(out) : out[i].kind = k

\* ------------------------------------------------------------------ Init
Init ==
    /\ pc = "main"
    /\ poll_interval \in PollIntervals
    /\ sleeping_for = 0
    /\ previous_state = None
    /\ previous_inverter_states = NoList
    /\ running = FALSE
    /\ current_state = None
    /\ current_inverters = NoList
    /\ conn = FALSE
    /\ handlers = FALSE
    /\ exit_code = NoExit
    /\ stdout = <<>>
    /\ signals = 0
    /\ fetches = 0
    /\ sleeps = 0
    /\ failed_streak = 0
    /\ reports = 0
    /\ shown_state = None
    /\ shown_inverters = NoList

\* --------------------------------------------------------------- main()
\* monitor = FCSPStateMonitor(poll_interval=args.interval): the fields are
\* set and both handlers registered. No check of poll_interval is made.
ConstructOk ==
    /\ pc = "main"
    /\ previous_state' = None
    /\ previous_inverter_states' = NoList
    /\ running' = FALSE
    /\ handlers' = TRUE
    /\ pc' = "constructed"
    /\ UNCHANGED <<poll_interval, sleeping_for, current_state, current_inverters, conn,
                   exit_code, stdout, signals, fetches, sleeps, failed_streak, reports,
                   shown_state, shown_inverters>>

\* signal.signal raises (ValueError, OSError): main's "except Exception"
\* prints "Failed to start monitor" and calls sys.exit(1).
ConstructFail ==
    /\ pc = "main"
    /\ stdout' = Append(stdout, Line("start_failed"))
    /\ exit_code' = 1
    /\ pc' = "exited"
    /\ UNCHANGED <<poll_interval, sleeping_for, previous_state, previous_inverter_states,
                   running, current_state, current_inverters, conn, handlers,
                   signals, fetches, sleeps, failed_streak, reports, shown_state,
                   shown_inverters>>

\* monitor() returned normally, by either return path: main() falls off its
\* end and the interpreter exits with status 0.
MainReturn ==
    /\ pc = "stopped"
    /\ exit_code' = 0
    /\ pc' = "exited"
    /\ UNCHANGED <<poll_interval, sleeping_for, previous_state, previous_inverter_states,
                   running, current_state, current_inverters, conn, handlers,
                   stdout, signals, fetches, sleeps, failed_streak, reports,
                   shown_state, shown_inverters>>

\* ------------------------------------------------------ _signal_handler
\* SIGINT or SIGTERM delivered while the process runs with the handler
\* registered: one line is printed and running is cleared.
SignalHandler ==
    /\ handlers
    /\ pc # "exited"
    /\ signals < MaxSignals
    /\ signals' = signals + 1
    /\ stdout' = Append(stdout, Line("signal"))
    /\ running' = FALSE
    /\ UNCHANGED <<pc, poll_interval, sleeping_for, previous_state, previous_inverter_states,
                   current_state, current_inverters, conn, handlers, exit_code,
                   fetches, sleeps, failed_streak, reports, shown_state, shown_inverters>>

\* ---------------------------------------------------- get_current_state
\* The FCSP client as a context manager: entering the with block yields an
\* open connection, leaving it (normally or by an exception) closes it.
FCSP_enter == TRUE
FCSP_exit == FALSE

\* Entering the with block: FCSP() connects, or raises and the except
\* clause prints the error and returns (None, None).
FetchConnect(at_call, at_with, at_ret) ==
    /\ pc = at_call
    /\ fetches' = Inc(fetches, MaxCount)
    /\ \/ /\ conn' = FCSP_enter
          /\ pc' = at_with
          /\ UNCHANGED <<current_state, current_inverters, stdout>>
       \/ /\ stdout' = Append(stdout, ErrorLine("connect"))
          /\ current_state' = None
          /\ current_inverters' = NoList
          /\ pc' = at_ret
          /\ UNCHANGED conn
    /\ UNCHANGED <<poll_interval, sleeping_for, previous_state, previous_inverter_states,
                   running, handlers, exit_code, signals, sleeps,
                   failed_streak, reports, shown_state, shown_inverters>>

\* Mutant: the connection is closed at the end of the block only, so an
\* exception inside the block leaves it open.
FetchRead_LeakOnError(at_with, at_ret) ==
    /\ pc = at_with
    /\ pc' = at_ret
    /\ \/ \E failure \in {"charger", "inverter", "extract"} :
             /\ stdout' = Append(stdout, ErrorLine(failure))
             /\ current_state' = None
             /\ current_inverters' = NoList
             /\ UNCHANGED conn
       \/ \E s \in StateCodes \cup {None}, inv \in InverterLists :
             /\ current_state' = s
             /\ current_inverters' = inv
             /\ conn' = FCSP_exit
             /\ UNCHANGED stdout
    /\ UNCHANGED <<poll_interval, sleeping_for, previous_state, previous_inverter_states,
                   running, handlers, exit_code, signals, fetches, sleeps,
                   failed_streak, reports, shown_state, shown_inverters>>

\* The body of the with block. get_charger_info, get_inverter_info or the
\* extraction raises: the block is left, the error printed, (None, None)
\* returned. Otherwise charger_info.get('state') is a code, or None when the
\* record has no 'state', and the list of inverter states is returned with it.
\* The with statement leaves the block on every one of these paths.
FetchRead(at_with, at_ret) ==
    /\ pc = at_with
    /\ conn' = FCSP_exit
    /\ pc' = at_ret
    /\ \/ \E failure \in {"charger", "inverter", "extract"} :
             /\ stdout' = Append(stdout, ErrorLine(failure))
             /\ current_state' = None
             /\ current_inverters' = NoList
       \/ \E s \in StateCodes \cup {None}, inv \in InverterLists :
             /\ current_state' = s
             /\ current_inverters' = inv
             /\ UNCHANGED stdout
    /\ UNCHANGED <<poll_interval, sleeping_for, previous_state, previous_inverter_states,
                   running, handlers, exit_code, signals, fetches, sleeps,
                   failed_streak, reports, shown_state, shown_inverters>>

\* ------------------------------------------------------------- monitor()
\* The banner, self.running = True, "Getting initial state...", and the
\* call of get_current_state.
MonitorStart ==
    /\ pc = "constructed"
    /\ running' = TRUE
    /\ stdout' = stdout \o <<Line("banner"), Line("getting_initial")>>
    /\ pc' = "init_call"
    /\ UNCHANGED <<poll_interval, sleeping_for, previous_state, previous_inverter_states,
                   current_state, current_inverters, conn, handlers, exit_code,
                   signals, fetches, sleeps, failed_streak, reports, shown_state,
                   shown_inverters>>

InitFetchConnect == FetchConnect("init_call", "init_with", "init_ret")
InitFetchRead == FetchRead("init_with", "init_ret")

\* Mutant: the None test is dropped, every fetch counts as a success.
FetchFailed_Never(state) == FALSE

\* "if initial_state is None" and "if current_state is None".
FetchFailed(state) == state = None

\* The initial-state line.
InitialLine(code) ==
    [kind |-> "initial", icon |-> Describe(code).icon, code |-> code,
     name |-> Describe(code).name]

\* if initial_state is None: print, return. Otherwise the pair is stored,
\* the initial state printed and the loop entered.
InitialCheck ==
    /\ pc = "init_ret"
    /\ IF FetchFailed(current_state)
       THEN /\ stdout' = Append(stdout, Line("initial_failed"))
            /\ pc' = "stopped"
            /\ UNCHANGED <<previous_state, previous_inverter_states,
                           shown_state, shown_inverters>>
       ELSE /\ previous_state' = current_state
            /\ previous_inverter_states' = current_inverters
            /\ stdout' = stdout \o <<InitialLine(current_state),
                                     Line("starting_loop")>>
            /\ shown_state' = current_state
            /\ shown_inverters' = current_inverters
            /\ pc' = "while"
    /\ UNCHANGED <<poll_interval, sleeping_for, running, current_state, current_inverters,
                   conn, handlers, exit_code, signals, fetches, sleeps,
                   failed_streak, reports>>

\* time.sleep raises ValueError for a negative length.
SleepRaises(seconds) == seconds < 0

\* Mutant: an unexpected error leaves the loop instead of backing off.
LoopHead_BreakOnError ==
    /\ pc = "while"
    /\ IF running
       THEN /\ sleeps' = Inc(sleeps, MaxCount)
            /\ IF SleepRaises(poll_interval)
               THEN /\ stdout' = <<Line("unexpected"), Line("stopped")>>
                    /\ failed_streak' = Inc(failed_streak, MaxStreak)
                    /\ pc' = "stopped"
                    /\ UNCHANGED sleeping_for
               ELSE /\ stdout' = <<>>
                    /\ sleeping_for' = poll_interval
                    /\ pc' = "sleeping"
                    /\ UNCHANGED failed_streak
       ELSE /\ stdout' = Append(stdout, Line("stopped"))
            /\ pc' = "stopped"
            /\ UNCHANGED <<sleeps, failed_streak, sleeping_for>>
    /\ UNCHANGED <<poll_interval, previous_state, previous_inverter_states,
                   running, current_state, current_inverters, conn, handlers,
                   exit_code, signals, fetches, reports, shown_state,
                   shown_inverters>>

\* Mutant: the unexpected-error handler clears running itself.
LoopHead_StopOnError ==
    /\ pc = "while"
    /\ IF running
       THEN /\ sleeps' = Inc(sleeps, MaxCount)
            /\ IF SleepRaises(poll_interval)
               THEN /\ stdout' = <<Line("unexpected")>>
                    /\ failed_streak' = Inc(failed_streak, MaxStreak)
                    /\ sleeping_for' = RECOVERY_DELAY
                    /\ running' = FALSE
                    /\ pc' = "backoff"
               ELSE /\ stdout' = <<>>
                    /\ sleeping_for' = poll_interval
                    /\ pc' = "sleeping"
                    /\ UNCHANGED <<failed_streak, running>>
       ELSE /\ stdout' = Append(stdout, Line("stopped"))
            /\ pc' = "stopped"
            /\ UNCHANGED <<sleeps, failed_streak, sleeping_for, running>>
    /\ UNCHANGED <<poll_interval, previous_state, previous_inverter_states,
                   current_state, current_inverters, conn, handlers,
                   exit_code, signals, fetches, reports, shown_state,
                   shown_inverters>>

\* "while self.running:" and the call of time.sleep(self.poll_interval).
\* When the loop is left, "Monitoring stopped" is printed and monitor()
\* returns. When sleep raises, "except Exception" prints the unexpected
\* error and calls time.sleep(5).
LoopHead ==
    /\ pc = "while"
    /\ IF running
       THEN /\ sleeps' = Inc(sleeps, MaxCount)
            /\ IF SleepRaises(poll_interval)
               THEN /\ stdout' = <<Line("unexpected")>>
                    /\ failed_streak' = Inc(failed_streak, MaxStreak)
                    /\ sleeping_for' = RECOVERY_DELAY
                    /\ pc' = "backoff"
               ELSE /\ stdout' = <<>>
                    /\ sleeping_for' = poll_interval
                    /\ pc' = "sleeping"
                    /\ UNCHANGED failed_streak
       ELSE /\ stdout' = Append(stdout, Line("stopped"))
            /\ pc' = "stopped"
            /\ UNCHANGED <<sleeps, failed_streak, sleeping_for>>
    /\ UNCHANGED <<poll_interval, previous_state, previous_inverter_states,
                   running, current_state, current_inverters, conn, handlers,
                   exit_code, signals, fetches, reports, shown_state,
                   shown_inverters>>

\* time.sleep(self.poll_interval) returns.
SleepWake ==
    /\ pc = "sleeping"
    /\ pc' = "wake"
    /\ sleeping_for' = 0
    /\ UNCHANGED <<poll_interval, previous_state, previous_inverter_states,
                   running, current_state, current_inverters, conn, handlers,
                   exit_code, stdout, signals, fetches, sleeps, failed_streak, reports,
                   shown_state, shown_inverters>>

\* Mutant: the running flag is not looked at after the sleep.
WakeCheck_NoBreak ==
    /\ pc = "wake"
    /\ pc' = "poll_call"
    /\ UNCHANGED <<poll_interval, sleeping_for, previous_state, previous_inverter_states,
                   running, current_state, current_inverters, conn, handlers,
                   exit_code, stdout, signals, fetches, sleeps, failed_streak,
                   reports, shown_state, shown_inverters>>

\* Mutant: the loop is left by return, past the final print.
WakeCheck_SilentBreak ==
    /\ pc = "wake"
    /\ IF ~running
       THEN /\ pc' = "stopped"
            /\ UNCHANGED stdout
       ELSE /\ pc' = "poll_call"
            /\ UNCHANGED stdout
    /\ UNCHANGED <<poll_interval, sleeping_for, previous_state,
                   previous_inverter_states, running, current_state,
                   current_inverters, conn, handlers, exit_code, signals,
                   fetches, sleeps, failed_streak, reports, shown_state,
                   shown_inverters>>

\* "if not self.running: break", then the call of get_current_state.
WakeCheck ==
    /\ pc = "wake"
    /\ IF ~running
       THEN /\ stdout' = Append(stdout, Line("stopped"))
            /\ pc' = "stopped"
       ELSE /\ pc' = "poll_call"
            /\ UNCHANGED stdout
    /\ UNCHANGED <<poll_interval, sleeping_for, previous_state, previous_inverter_states,
                   running, current_state, current_inverters, conn, handlers,
                   exit_code, signals, fetches, sleeps, failed_streak, reports,
                   shown_state, shown_inverters>>

PollFetchConnect == FetchConnect("poll_call", "poll_with", "poll_ret")
PollFetchRead == FetchRead("poll_with", "poll_ret")

\* Mutant: every poll counts as a change.
StatesDiffer_Always(cur_state, cur_inverters, prev_state, prev_inverters) ==
    TRUE

\* Mutant: only the inverter lists are compared.
StatesDiffer_InvertersOnly(cur_state, cur_inverters, prev_state, prev_inverters) ==
    cur_inverters # prev_inverters

\* current_state != self.previous_state or
\* current_inverters != self.previous_inverter_states
StatesDiffer(cur_state, cur_inverters, prev_state, prev_inverters) ==
    cur_state # prev_state \/ cur_inverters # prev_inverters

\* What the user has been shown after a change message: its new code, and
\* its new inverter list when the message has an inverter line.
ShownInverters(msg, before) ==
    IF Len(msg.lines) > 1 THEN msg.lines[2].new ELSE before

\* Mutant: after a report only previous_state is stored, the inverter list
\* is left stale.
Compare_StaleInverters ==
    /\ pc = "poll_ret"
    /\ pc' = "while"
    /\ IF FetchFailed(current_state)
       THEN /\ failed_streak' = Inc(failed_streak, MaxStreak)
            /\ UNCHANGED <<previous_state, previous_inverter_states, stdout,
                           reports, shown_state, shown_inverters>>
       ELSE /\ failed_streak' = 0
            /\ IF StatesDiffer(current_state, current_inverters,
                               previous_state, previous_inverter_states)
               THEN LET msg == format_state_change(
                                   previous_state, current_state,
                                   previous_inverter_states, current_inverters)
                    IN /\ stdout' = Append(stdout, msg)
                       /\ reports' = Inc(reports, MaxCount)
                       /\ previous_state' = current_state
                       /\ UNCHANGED previous_inverter_states
                       /\ shown_state' = msg.lines[1].new_code
                       /\ shown_inverters' = ShownInverters(msg, shown_inverters)
               ELSE UNCHANGED <<previous_state, previous_inverter_states,
                                stdout, reports, shown_state, shown_inverters>>
    /\ UNCHANGED <<poll_interval, sleeping_for, running, current_state, current_inverters,
                   conn, handlers, exit_code, signals, fetches, sleeps>>

\* Mutant: a failed fetch is raised into the loop's "except Exception"
\* instead of being skipped with continue.
Compare_RaiseOnFailure ==
    /\ pc = "poll_ret"
    /\ IF FetchFailed(current_state)
       THEN /\ failed_streak' = Inc(failed_streak, MaxStreak)
            /\ stdout' = Append(stdout, Line("unexpected"))
            /\ pc' = "backoff"
            /\ sleeping_for' = RECOVERY_DELAY
            /\ UNCHANGED <<previous_state, previous_inverter_states,
                           reports, shown_state, shown_inverters>>
       ELSE /\ failed_streak' = 0
            /\ pc' = "while"
            /\ UNCHANGED sleeping_for
            /\ IF StatesDiffer(current_state, current_inverters,
                               previous_state, previous_inverter_states)
               THEN LET msg == format_state_change(
                                   previous_state, current_state,
                                   previous_inverter_states, current_inverters)
                    IN /\ stdout' = Append(stdout, msg)
                       /\ reports' = Inc(reports, MaxCount)
                       /\ previous_state' = current_state
                       /\ previous_inverter_states' = current_inverters
                       /\ shown_state' = msg.lines[1].new_code
                       /\ shown_inverters' = ShownInverters(msg, shown_inverters)
               ELSE UNCHANGED <<previous_state, previous_inverter_states,
                                stdout, reports, shown_state, shown_inverters>>
    /\ UNCHANGED <<poll_interval, running, current_state, current_inverters,
                   conn, handlers, exit_code, signals, fetches, sleeps>>

\* The rest of the loop body after the fetch: skip on None, else compare,
\* report and store.
Compare ==
    /\ pc = "poll_ret"
    /\ pc' = "while"
    /\ IF FetchFailed(current_state)
       THEN /\ failed_streak' = Inc(failed_streak, MaxStreak)
            /\ UNCHANGED <<previous_state, previous_inverter_states, stdout,
                           reports, shown_state, shown_inverters>>
       ELSE /\ failed_streak' = 0
            /\ IF StatesDiffer(current_state, current_inverters,
                               previous_state, previous_inverter_states)
               THEN LET msg == format_state_change(
                                   previous_state, current_state,
                                   previous_inverter_states, current_inverters)
                    IN /\ stdout' = Append(stdout, msg)
                       /\ reports' = Inc(reports, MaxCount)
                       /\ previous_state' = current_state
                       /\ previous_inverter_states' = current_inverters
                       /\ shown_state' = msg.lines[1].new_code
                       /\ shown_inverters' = ShownInverters(msg, shown_inverters)
               ELSE UNCHANGED <<previous_state, previous_inverter_states,
                                stdout, reports, shown_state, shown_inverters>>
    /\ UNCHANGED <<poll_interval, sleeping_for, running, current_state, current_inverters,
                   conn, handlers, exit_code, signals, fetches, sleeps>>

\* time.sleep(5) of the unexpected-error handler returns.
BackoffWake ==
    /\ pc = "backoff"
    /\ pc' = "while"
    /\ sleeping_for' = 0
    /\ UNCHANGED <<poll_interval, previous_state, previous_inverter_states,
                   running, current_state, current_inverters, conn, handlers,
                   exit_code, stdout, signals, fetches, sleeps, failed_streak, reports,
                   shown_state, shown_inverters>>

Next ==
    \/ ConstructOk
    \/ ConstructFail
    \/ MonitorStart
    \/ InitFetchConnect
    \/ InitFetchRead
    \/ InitialCheck
    \/ LoopHead
    \/ SleepWake
    \/ WakeCheck
    \/ PollFetchConnect
    \/ PollFetchRead
    \/ Compare
    \/ BackoffWake
    \/ MainReturn
    \/ SignalHandler

Spec == Init /\ [][Next]_vars

\* The steps of the main thread: everything but the delivery of a signal.
MainStep ==
    \/ ConstructOk
    \/ ConstructFail
    \/ MonitorStart
    \/ InitFetchConnect
    \/ InitFetchRead
    \/ InitialCheck
    \/ LoopHead
    \/ SleepWake
    \/ WakeCheck
    \/ PollFetchConnect
    \/ PollFetchRead
    \/ Compare
    \/ BackoffWake
    \/ MainReturn

\* The main thread keeps running: every fetch and every sleep ends. No
\* signal is ever owed by the environment.
FairSpec == Spec /\ WF_vars(MainStep)

\* =============================================================== claims
LoopPcs == {"while", "sleeping", "wake", "poll_call", "poll_with", "poll_ret",
            "backoff"}

\* The step that ends a poll cycle whose fetch returned a state code.
SuccessfulPollStep ==
    pc = "poll_ret" /\ pc' = "while" /\ current_state # None

\* The display name the catalog resolves a code to.
ResolvedName(code) ==
    CASE code = "CS00" -> "Available"
      [] code = "CS01" -> "Connected (Not Charging)"
      [] code = "CS02" -> "Charging"
      [] code = "CS03" -> "Error/Fault"
      [] OTHER -> "Unknown (" \o code \o ")"

\* C1: a successful mid-loop poll whose (state, inverters) pair equals the
\* stored (previous_state, previous_inverter_states) pair ends its cycle
\* with no change report printed in that cycle.
C1_UnchangedPollPrintsNoReport ==
    [][(/\ SuccessfulPollStep
        /\ current_state = previous_state
        /\ current_inverters = previous_inverter_states)
       => ChangeReports(stdout') = <<>>]_vars

\* C1 witness: a cycle has just ended after a successful fetch of the stored
\* pair, after at least one earlier change report, and printed no report.
C1_Witness ==
    /\ pc = "while"
    /\ fetches >= 2
    /\ reports >= 1
    /\ failed_streak = 0
    /\ current_state = previous_state
    /\ current_inverters = previous_inverter_states
    /\ ChangeReports(stdout) = <<>>

\* C2: a successful mid-loop poll whose state code differs from
\* previous_state ends its cycle with exactly one change report, whose device
\* line holds the old code, the new code and the display name of each.
C2_StateChangePrintsOneReport ==
    [][(SuccessfulPollStep /\ current_state # previous_state)
       => LET r == ChangeReports(stdout')
          IN /\ Len(r) = 1
             /\ r[1].lines[1].old_code = previous_state
             /\ r[1].lines[1].new_code = current_state
             /\ r[1].lines[1].old_name = ResolvedName(previous_state)
             /\ r[1].lines[1].new_name = ResolvedName(current_state)]_vars

\* C2 witness: a cycle has just ended with one report of a transition from a
\* catalogued code to an uncatalogued one.
C2_Witness ==
    /\ pc = "while"
    /\ Len(ChangeReports(stdout)) = 1
    /\ ChangeReports(stdout)[1].lines[1].old_code = "CS02"
    /\ ChangeReports(stdout)[1].lines[1].new_code = "CS99"
    /\ previous_state = "CS99"

\* C3: a failed mid-loop fetch leaves previous_state and
\* previous_inverter_states as they were; while failed cycles pile up the
\* stored pair stays the pair last shown to the user, never None; and the
\* next successful poll is compared against that pair: it prints nothing
\* when it fetched the same pair, and otherwise one report whose old values
\* are that pair.
C3_FailedFetchKeepsPrevious ==
    /\ [][(pc = "poll_ret" /\ pc' = "while" /\ current_state = None)
          => /\ previous_state' = previous_state
             /\ previous_inverter_states' = previous_inverter_states
             /\ ChangeReports(stdout') = <<>>]_vars
    /\ []((pc \in LoopPcs /\ failed_streak > 0)
          => /\ previous_state # None
             /\ previous_state = shown_state
             /\ previous_inverter_states = shown_inverters)
    /\ [][(SuccessfulPollStep /\ failed_streak > 0)
          => LET r == ChangeReports(stdout')
             IN IF /\ current_state = shown_state
                   /\ current_inverters = shown_inverters
                THEN r = <<>>
                ELSE /\ Len(r) = 1
                     /\ r[1].lines[1].old_code = shown_state
                     /\ Len(r[1].lines) > 1
                        => r[1].lines[2].old = shown_inverters]_vars

\* C3 witness: two fetches in a row have failed in the loop and the stored
\* pair is still the one of the initial fetch.
C3_Witness ==
    /\ pc = "while"
    /\ poll_interval >= 0
    /\ failed_streak >= 2
    /\ reports = 0
    /\ previous_state \in StateCodes
    /\ previous_inverter_states \in InverterLists
    /\ current_state = None

\* C4 (as claimed): when the initial fetch failed the process made no poll
\* cycle (one fetch, no sleep) and its exit status is not 0.
C4_InitialFailureExitsNonZero ==
    (pc = "exited" /\ HasLine(stdout, "initial_failed"))
        => (fetches = 1 /\ sleeps = 0 /\ exit_code # 0)

\* C5: every change report continues the chain: its old code is the code
\* last shown (the initial state, or the new code of the report before), its
\* inverter line starts from the list last shown, and it has no inverter
\* line only when the fetched list is the list last shown.
C5_ReportsAreChained ==
    [][(ChangeReports(stdout') # ChangeReports(stdout) /\ pc = "poll_ret")
       => LET r == ChangeReports(stdout')
              last == r[Len(r)]
          IN /\ last.lines[1].old_code = shown_state
             /\ IF Len(last.lines) > 1
                THEN last.lines[2].old = shown_inverters
                ELSE current_inverters = shown_inverters]_vars

\* C5 witness: a second (or later) report has just been printed, after a
\* failed cycle, and it has an inverter line.
C5_Witness ==
    /\ pc = "while"
    /\ reports >= 2
    /\ Len(ChangeReports(stdout)) = 1
    /\ Len(ChangeReports(stdout)[1].lines) = 2
    /\ HasLine(stdout, "error") = FALSE
    /\ fetches >= 3

\* C6: once running is cleared while the loop sleeps, the loop does not
\* fetch again: it stays asleep or at the check after waking, that check
\* leaves the loop printing "Monitoring stopped", and the process then exits
\* with status 0.
C6_SignalWhileSleepingStops ==
    /\ [][(pc \in {"sleeping", "wake"} /\ ~running)
          => \/ pc' \in {"sleeping", "wake"} /\ fetches' = fetches
             \/ /\ pc = "wake"
                /\ pc' = "stopped"
                /\ fetches' = fetches
                /\ stdout' = Append(stdout, Line("stopped"))]_vars
    /\ [][(pc = "stopped" /\ HasLine(stdout, "stopped"))
          => \/ pc' = "stopped"
             \/ pc' = "exited" /\ exit_code' = 0]_vars

\* C6 witness: the process has exited with status 0 after one sleep and no
\* fetch beyond the initial one, acknowledging the signal and the stop.
C6_Witness ==
    /\ pc = "exited"
    /\ exit_code = 0
    /\ poll_interval >= 0
    /\ sleeps = 1
    /\ fetches = 1
    /\ stdout = <<Line("signal"), Line("stopped")>>

\* C7: monitor() has returned only if a signal was delivered or the initial
\* fetch failed.
C7_StopsOnlyOnSignalOrInitialFailure ==
    pc = "stopped" => (signals > 0 \/ HasLine(stdout, "initial_failed"))

\* C7 witness: the loop is still running after several iterations in a row
\* that ended without a comparison.
C7_Witness ==
    /\ pc \in {"sleeping", "backoff"}
    /\ failed_streak >= 3
    /\ signals = 0
    /\ running

\* C8 (as claimed): with a poll interval that is not greater than 0 the
\* monitor is never constructed, nothing is fetched and nothing slept, and
\* the process exits with status 1 after reporting the failure.
C8_BadIntervalIsFatal ==
    poll_interval <= 0
        => /\ pc \in {"main", "exited"}
           /\ fetches = 0
           /\ sleeps = 0
           /\ pc = "exited" => (exit_code = 1 /\ HasLine(stdout, "start_failed"))

\* C9: while the poll loop runs (SLEEPING, POLLING, ERROR_BACKOFF),
\* previous_state is not None.
C9_PreviousStateSetInLoop ==
    pc \in LoopPcs => previous_state # None

\* C9 witness: the loop is about to handle a failed mid-loop fetch, with a
\* state stored.
C9_Witness ==
    /\ pc = "poll_ret"
    /\ current_state = None
    /\ previous_state \in StateCodes

\* C10: a successful poll with the stored state code but another inverter
\* list (by equality of the whole sequence) prints one change report whose
\* device line has the same old and new code and whose inverter line shows
\* the stored list and the fetched list.
C10_InverterOnlyChange ==
    [][(/\ SuccessfulPollStep
        /\ current_state = previous_state
        /\ current_inverters # previous_inverter_states)
       => LET r == ChangeReports(stdout')
          IN /\ Len(r) = 1
             /\ r[1].lines[1].old_code = current_state
             /\ r[1].lines[1].new_code = current_state
             /\ Len(r[1].lines) = 2
             /\ r[1].lines[2].line = "inverters"
             /\ r[1].lines[2].old = previous_inverter_states
             /\ r[1].lines[2].new = current_inverters]_vars

\* C10 witness: a report has just been printed for the same code and two
\* lists of the same length in another order.
C10_Witness ==
    /\ pc = "while"
    /\ Len(ChangeReports(stdout)) = 1
    /\ LET m == ChangeReports(stdout)[1]
       IN /\ m.lines[1].old_code = m.lines[1].new_code
          /\ Len(m.lines) = 2
          /\ m.lines[2].old = List(<<"on", "off">>)
          /\ m.lines[2].new = List(<<"off", "on">>)

\* C11: the connection is held only inside a fetch: in every state where
\* the loop sleeps, checks after waking, backs off, tests its condition,
\* handles a returned fetch or has stopped, and before the first fetch, no
\* connection is held, whichever way the fetch ended.
C11_NoConnectionOutsideFetch ==
    pc \notin {"init_with", "poll_with"} => ~conn

\* C11 witness: the loop sleeps after a cycle whose fetch failed inside the
\* with block (get_inverter_info raised).
C11_Witness ==
    /\ pc = "while"
    /\ fetches >= 2
    /\ \E i \in 1..Len(stdout) : stdout[i] = ErrorLine("inverter")
    /\ ~conn

\* The icon the catalog holds for a code.
CatalogIcon(code) ==
    CASE code = "CS00" -> "green"
      [] code = "CS01" -> "yellow"
      [] code = "CS02" -> "battery"
      [] code = "CS03" -> "red"

\* The name and icon a printed line must show for a code.
Resolved(code, name, icon) ==
    IF code \in {"CS00", "CS01", "CS02", "CS03"}
    THEN name = ResolvedName(code) /\ icon = CatalogIcon(code)
    ELSE name = "Unknown (" \o code \o ")" /\ icon = "question"

\* C12: every code the monitor describes in a printed line (the initial
\* state, the old and the new state of a change report) is shown with the
\* catalog's name and icon when it is a key of the catalog, and with the name
\* "Unknown (<code>)" and the placeholder icon when it is not.
C12_DescriptorLookup ==
    \A i \in 1..Len(stdout) :
        /\ stdout[i].kind = "initial"
           => Resolved(stdout[i].code, stdout[i].name, stdout[i].icon)
        /\ stdout[i].kind = "change"
           => LET d == stdout[i].lines[1]
              IN /\ Resolved(d.old_code, d.old_name, d.old_icon)
                 /\ Resolved(d.new_code, d.new_name, d.new_icon)

\* C12 witness: a change report from an uncatalogued code to a catalogued
\* one has been printed.
C12_Witness ==
    \E i \in 1..Len(stdout) :
        /\ stdout[i].kind = "change"
        /\ stdout[i].lines[1].old_code = "CS99"
        /\ stdout[i].lines[1].old_name = "Unknown (CS99)"
        /\ stdout[i].lines[1].new_code = "CS00"
        /\ stdout[i].lines[1].new_name = "Available"

\* C13 (as claimed): once running is cleared while the loop runs, an
\* in-flight fetch runs to its end and no call of get_current_state is
\* started.
C13_NoFetchStartsAfterFlag ==
    /\ [][(pc = "poll_with" /\ ~running)
          => pc' \in {"poll_with", "poll_ret"}]_vars
    /\ [][(pc \in LoopPcs /\ ~running)
          => ~(pc = "poll_call" /\ pc' \in {"poll_with", "poll_ret"})]_vars

\* C13 (amended): the handler moves nothing but the flag (and prints); a
\* fetch in flight when the flag is cleared runs to its end and its result is
\* handled; from every loop position other than the one between the check
\* after the sleep and the call of get_current_state, no fetch is started
\* once the flag is cleared; at that one position the fetch already decided
\* on still starts, and it is the last.
C13_CooperativeCancellation ==
    /\ [][(running /\ ~running')
          => /\ pc' = pc
             /\ conn' = conn
             /\ current_state' = current_state
             /\ current_inverters' = current_inverters]_vars
    /\ [][(pc = "poll_with" /\ ~running)
          => pc' \in {"poll_with", "poll_ret"}]_vars
    /\ [][(pc = "poll_ret" /\ ~running)
          => pc' \in {"poll_ret", "while"}]_vars
    /\ [][(pc \in (LoopPcs \ {"poll_call"}) /\ ~running)
          => (pc' # "poll_call" /\ ~running')]_vars
    /\ [][(pc = "poll_call" /\ ~running)
          => (pc' \in {"poll_call", "poll_with", "poll_ret"} /\ ~running')]_vars

\* C13 witness: the signal came before a fetch failed inside the with block;
\* the fetch ended by itself, and the loop stopped without another fetch.
C13_Witness ==
    /\ pc = "stopped"
    /\ fetches = 2
    /\ stdout = <<Line("signal"), ErrorLine("inverter"), Line("stopped")>>

\* C14: a reported fetch failure does not lead to ERROR_BACKOFF: the cycle
\* of a failed fetch ends at the loop test, and from there the loop sleeps
\* poll_interval (or stops), with no recovery delay; the recovery delay is
\* entered only from the loop test, when time.sleep raised, with the
\* unexpected-error line printed and no fetch error in that iteration.
C14_FetchFailureSkipsBackoff ==
    /\ [][(pc = "poll_ret" /\ current_state = None)
          => pc' \in {"poll_ret", "while"}]_vars
    /\ [][(pc = "while" /\ HasLine(stdout, "error"))
          => pc' \in {"while", "sleeping", "stopped"}]_vars
    /\ [][(pc # "backoff" /\ pc' = "backoff")
          => (pc = "while" /\ poll_interval < 0)]_vars
    /\ [](pc = "backoff"
          => (HasLine(stdout, "unexpected") /\ ~HasLine(stdout, "error")))

\* C14 witness: the loop sleeps again right after a cycle whose fetch failed
\* with a transport error.
C14_Witness ==
    /\ pc = "sleeping"
    /\ failed_streak >= 1
    /\ current_state = None
    /\ current_inverters = NoList
    /\ fetches >= 2

\* C15 (as claimed): for every accepted poll interval (greater than 0) the
\* delay the unexpected-error handler waits is shorter than poll_interval.
C15_DelayShorterThanInterval ==
    (handlers /\ poll_interval > 0) => RECOVERY_DELAY < poll_interval

\* C15 (amended): the sleep of ERROR_BACKOFF is 5 seconds whatever the poll
\* interval, the sleep of SLEEPING is poll_interval, and the recovery delay
\* is shorter than poll_interval exactly for the intervals greater than 5.
C15_DelayIsFixed ==
    /\ pc = "backoff" => sleeping_for = 5
    /\ pc = "sleeping" => sleeping_for = poll_interval
    /\ handlers => ((RECOVERY_DELAY < poll_interval) <=> (poll_interval > 5))

\* C15 witness: the handler is in its recovery sleep, for the second time in
\* a row or more.
C15_Witness ==
    /\ pc = "backoff"
    /\ sleeping_for = RECOVERY_DELAY
    /\ failed_streak >= 2

\* C16 (as claimed): whenever monitor() has returned, from a signal or from
\* a failed initial fetch, the shutdown acknowledgment "Monitoring stopped"
\* has been printed.
C16_StoppedAlwaysAcknowledged ==
    pc = "stopped" => HasLine(stdout, "stopped")

\* C16 (amended): STOPPED is terminal: once monitor() has returned nothing
\* is fetched or reported and previous_* do not change, and after the exit
\* nothing changes at all. "Monitoring stopped" is printed when the loop was
\* left; after a failed initial fetch only the fatal line is printed, with
\* no state stored.
C16_StoppedIsTerminal ==
    /\ [](pc = "stopped"
          => IF HasLine(stdout, "initial_failed")
             THEN ~HasLine(stdout, "stopped") /\ previous_state = None
             ELSE HasLine(stdout, "stopped"))
    /\ [][pc = "stopped"
          => /\ pc' \in {"stopped", "exited"}
             /\ fetches' = fetches
             /\ conn' = conn
             /\ reports' = reports
             /\ ChangeReports(stdout') = ChangeReports(stdout)
             /\ previous_state' = previous_state
             /\ previous_inverter_states' = previous_inverter_states]_vars
    /\ [][pc = "exited" => UNCHANGED vars]_vars

\* C16 witness: the loop was left with the acknowledgment after a change had
\* been reported, and another signal arrived after that.
C16_Witness ==
    /\ pc = "stopped"
    /\ reports >= 1
    /\ HasLine(stdout, "stopped")
    /\ stdout[Len(stdout)] = Line("signal")
    /\ signals = 2

\* C17 (as claimed): a poll cycle is skipped only after get_current_state
\* printed its error line in that cycle: when the loop is about to skip (the
\* returned state is None), the lines of this iteration hold an error line.
C17_SkipOnlyAfterReportedError ==
    (pc = "poll_ret" /\ current_state = None) => HasLine(stdout, "error")

\* C18: a delivered signal clears running and leaves previous_state,
\* previous_inverter_states, poll_interval and the position of the main
\* thread alone; previous_* change only at the initial check with a fetched
\* state, or at the end of a poll cycle that found a difference and printed
\* its report; running is cleared only by a signal; poll_interval never
\* changes.
C18_HandlerAndLoopFrames ==
    /\ [][(signals' # signals)
          => /\ ~running'
             /\ pc' = pc
             /\ poll_interval' = poll_interval
             /\ previous_state' = previous_state
             /\ previous_inverter_states' = previous_inverter_states
             /\ conn' = conn]_vars
    /\ [][(\/ previous_state' # previous_state
           \/ previous_inverter_states' # previous_inverter_states)
          => \/ pc = "init_ret" /\ current_state # None
             \/ /\ pc = "poll_ret"
                /\ current_state # None
                /\ \/ current_state # previous_state
                   \/ current_inverters # previous_inverter_states
                /\ Len(ChangeReports(stdout')) =
                       Len(ChangeReports(stdout)) + 1]_vars
    /\ [][(running /\ ~running') => signals' = signals + 1]_vars
    /\ [][poll_interval' = poll_interval]_vars

\* C18 witness: a signal has been delivered in the loop after a change was
\* stored; the stored pair is still the one last shown.
C18_Witness ==
    /\ pc \in LoopPcs
    /\ signals = 1
    /\ ~running
    /\ reports >= 1
    /\ stdout[Len(stdout)] = Line("signal")
    /\ previous_state = shown_state
    /\ previous_inverter_states = shown_inverters

\* C19 (as claimed): once a signal has been delivered to the registered
\* handler, the monitor eventually reaches STOPPED (monitor() returns).
C19_SignalLeadsToStopped ==
    (signals > 0) ~> (pc \in {"stopped", "exited"})

\* C20: previous_state and previous_inverter_states move together and
\* follow the fetches that returned a state: the initial check and the end
\* of every poll cycle with a fetched state leave the stored pair equal to
\* the fetched pair, a cycle without a fetched state leaves the stored pair
\* alone, and no other step touches either of the two.
C20_PreviousPairTracksFetch ==
    /\ [][(pc = "init_ret" /\ pc' # pc /\ current_state # None)
          => /\ previous_state' = current_state
             /\ previous_inverter_states' = current_inverters]_vars
    /\ [][SuccessfulPollStep
          => /\ previous_state' = current_state
             /\ previous_inverter_states' = current_inverters]_vars
    /\ [][(pc = "poll_ret" /\ current_state = None)
          => /\ previous_state' = previous_state
             /\ previous_inverter_states' = previous_inverter_states]_vars
    /\ [][(pc \notin {"init_ret", "poll_ret"})
          => /\ previous_state' = previous_state
             /\ previous_inverter_states' = previous_inverter_states]_vars

\* C20 witness: after two reports, the last one for a new code with the same
\* inverter list, a cycle has just failed; the stored pair is the pair of the
\* last fetch that returned a state.
C20_Witness ==
    /\ pc = "while"
    /\ reports >= 2
    /\ failed_streak = 1
    /\ HasLine(stdout, "error")
    /\ previous_state = "CS02"
    /\ previous_inverter_states = List(<<"off", "on">>)
    /\ shown_state = "CS02"
    /\ shown_inverters = List(<<"off", "on">>)

====
